---- MODULE Spec2Model ----
(***************************************************************************)
(* Model of the direct-message view (src/src/components/DirectMessages.tsx,*)
(* first revision, lines 1-565) together with the direct_messages table    *)
(* and the notification hook's read-marking                                *)
(* (src/src/hooks/useNotifications.tsx).                                   *)
(*                                                                         *)
(* The view is a React component: every event handler and every            *)
(* continuation after an `await` is one atomic step of the single-threaded *)
(* event loop.  Requests to the store are split into the step that issues  *)
(* them, the step in which the store applies them, and the step in which   *)
(* the response is handled, so that every interleaving the event loop      *)
(* admits is a behaviour of the model.                                     *)
(*                                                                         *)
(* Spec is the view and its log; MarkSpec is the read-marking of the view  *)
(* and of the notification hook against the table.  The view never reads   *)
(* read_at, so the two are checked apart.  Of a row the log keeps the      *)
(* fields the view uses: id, sender_id, receiver_id, content, image_url    *)
(* and created_at (the joined sender profile and read_at are display data  *)
(* the handlers never test).                                               *)
(*                                                                         *)
(* The other components have their own variables and specifications: the   *)
(* two multiplayer games over the conversation's messages (TttSpec,        *)
(* RpsSpec), the notification counters of useNotifications (NotifSpec,     *)
(* CountSpec), the friend requests with their tables and trigger           *)
(* (FriendSpec) and the shared chat room (RoomSpec).  Pure functions are   *)
(* evaluated over bounded inputs (WinSpec, RoundSpec, ConversationsSpec).  *)
(***************************************************************************)
EXTENDS Integers, Sequences, FiniteSets, TLC

\* ---------------------------------------------------------------- bounds
MaxTime    == 1     \* the clock stops advancing here
MaxStore   == 2     \* rows of direct_messages
MaxSends   == 1     \* sendMessage calls in flight
MaxFetches == 1     \* fetchMessages calls in flight

\* ------------------------------------------------------------- constants
Null    == "null"           \* selectedFriend === null
User    == "u"              \* user.id of the signed-in user
Friends == {"f1", "f2"}     \* profiles of the user's friends
All     == "all"            \* read-marking without a sender filter
Unread  == -1               \* read_at IS NULL
NoImage == ""               \* imageUrl === ''
Images  == {"img"}          \* urls returned by the image upload
TextInputs == {<<>>, <<" ">>, <<" ", "a">>}   \* values of the compose input
PlainTexts == {<<" ", "a">>}   \* a text message, typed with a leading blank
GameMessages == {<<"w">>}   \* result texts handed to sendGameResult

VARIABLES
  now,             \* Date.now() / NOW(), in clock ticks (a tick is coarse:
                   \* two steps may read the same time)
  store,           \* table direct_messages, in insertion order
  mounted,         \* the DirectMessages component is mounted
  selectedFriend,  \* useState selectedFriend
  messages,        \* useState messages: the local log
  newMessage,      \* useState newMessage: the compose input
  imageUrl,        \* useState imageUrl
  loading,         \* useState loading
  channel,         \* the channel held by the subscription effect's cleanup
  channels,        \* open realtime channels of the client, per conversation
  events,          \* INSERT events queued on the open channels
  callbacks,       \* push callbacks awaiting their fetch of the full row
  sends,           \* sendMessage calls awaiting the insert response
  fetches,         \* fetchMessages calls awaiting the select response
  marks,           \* read-marking updates issued and not yet applied
  toasts,          \* toasts shown by the latest step
  marked,          \* history: read-markings applied since the latest insert
  last,            \* history: what the latest step did
  glog,            \* the conversation's messages as the games see them, in
                   \* created_at order
  seen,            \* per peer: the log's prefix that reached its messages prop
  ttt,             \* per peer: useState of MultiplayerTicTacToe
  rps,             \* per peer: useState of MultiplayerRockPaperScissors
  arg,             \* the argument a function is called with
  out,             \* what the call returned
  done,            \* whether the call has returned
  pushed,          \* history: rows the push callback appended to the open
                   \* conversation's log
  counts,          \* useNotifications: useState counts
  records,         \* rows of direct_messages, friend_requests, posts and
                   \* messages, in insertion order
  notices,         \* INSERT events queued on the four notification channels
  counting,        \* the fetchCounts call: the query it awaits, the answers so far
  clearing,        \* markMessagesAsRead calls of the hook in flight
  view,            \* currentView of the page
  friend_requests, \* table friend_requests, in insertion order
  friendships,     \* table friendships, in insertion order
  pendingRequests, \* per user: the requests its friends view lists
  ftoast,          \* per user: the toast its friends view showed last
  roomStore,       \* table messages, in insertion order
  roomMessages,    \* ChatRoom: useState messages
  roomEvents,      \* INSERT events queued on the room's channel
  roomFetch        \* ChatRoom: the fetchMessages call and what it read

chatVars == <<now, store, mounted, selectedFriend, messages, newMessage, imageUrl,
              loading, channel, channels, events, callbacks, sends, fetches,
              marks, toasts, marked, last>>
gameVars == <<glog, seen, ttt, rps>>
fnVars   == <<arg, out, done>>
notifVars  == <<counts, records, notices, counting, clearing, view>>
friendVars == <<friend_requests, friendships, pendingRequests, ftoast>>
roomVars   == <<roomStore, roomMessages, roomEvents, roomFetch>>
sideVars == <<pushed, notifVars, friendVars, roomVars>>

vars == <<chatVars, gameVars, fnVars, sideVars>>

\* ------------------------------------------------------------ identifiers
DbId(n)   == <<"db", n>>            \* id assigned by the store
TempId(t) == <<"optimistic", t>>    \* `optimistic-${Date.now()}`

\* ------------------------------------------------------------- the store
Row(n, from, to, text, img, t) ==
  [id |-> DbId(n), sender_id |-> from, receiver_id |-> to, content |-> text,
   image_url |-> img, created_at |-> t, read_at |-> Unread]

InsertRow(rows, from, to, text, img, t) ==
  Append(rows, Row(Len(rows) + 1, from, to, text, img, t))

\* the other party of a row, seen from the signed-in user
PeerOf(m) == IF m.sender_id = User THEN m.receiver_id ELSE m.sender_id

\* or(and(sender=user,receiver=friend),and(sender=friend,receiver=user))
InConversation(m, f) ==
  \/ (m.sender_id = User /\ m.receiver_id = f)
  \/ (m.sender_id = f /\ m.receiver_id = User)

\* .order('created_at', { ascending: true })
RECURSIVE InsertByCreatedAt(_, _)
InsertByCreatedAt(sorted, m) ==
  IF sorted = <<>> THEN <<m>>
  ELSE IF sorted[Len(sorted)].created_at <= m.created_at THEN Append(sorted, m)
  ELSE Append(InsertByCreatedAt(SubSeq(sorted, 1, Len(sorted) - 1), m),
              sorted[Len(sorted)])

RECURSIVE OrderByCreatedAt(_)
OrderByCreatedAt(rows) ==
  IF rows = <<>> THEN <<>>
  ELSE InsertByCreatedAt(OrderByCreatedAt(SubSeq(rows, 1, Len(rows) - 1)),
                         rows[Len(rows)])

\* a row as the view holds it
Entry(m) ==
  [id |-> m.id, sender_id |-> m.sender_id, receiver_id |-> m.receiver_id,
   content |-> m.content, image_url |-> m.image_url, created_at |-> m.created_at]

Entries(rows) == [i \in 1..Len(rows) |-> Entry(rows[i])]

\* the select of fetchMessages
SelectConversation(rows, f) ==
  Entries(OrderByCreatedAt(SelectSeq(rows, LAMBDA m : InConversation(m, f))))

\* --------------------------------------------------------- pure helpers
\* String.prototype.trim on a sequence of characters
RECURSIVE TrimStart(_)
TrimStart(s) ==
  IF s = <<>> THEN s
  ELSE IF Head(s) = " " THEN TrimStart(Tail(s)) ELSE s

RECURSIVE TrimEnd(_)
TrimEnd(s) ==
  IF s = <<>> THEN s
  ELSE IF s[Len(s)] = " " THEN TrimEnd(SubSeq(s, 1, Len(s) - 1)) ELSE s

Trim(s) == TrimEnd(TrimStart(s))

\* faulty variant: the text is tested without trim()
RejectsSend_NoTrim(text, img, friend) ==
  (text = <<>> /\ img = NoImage) \/ friend = Null

\* (!newMessage.trim() && !imageUrl) || !selectedFriend || !user
RejectsSend(text, img, friend) ==
  (Trim(text) = <<>> /\ img = NoImage) \/ friend = Null

\* canSend: (newMessage.trim() || imageUrl) && !loading
CanSend(text, img, busy) ==
  (Trim(text) # <<>> \/ img # NoImage) /\ ~busy

\* the optimistic entry of sendMessage
OptimisticMessage(t, f, text, img) ==
  [id |-> TempId(t), sender_id |-> User, receiver_id |-> f, content |-> text,
   image_url |-> img, created_at |-> t]

\* prev => [...prev, optimisticMessage]
AppendOptimistic(prev, m) == Append(prev, m)

\* faulty variant: the temporary entry is dropped and the stored row appended
ReplaceOptimistic_Reappends(prev, temp, data) ==
  Append(SelectSeq(prev, LAMBDA m : m.id # temp), data)

\* prev => prev.map(msg => msg.id === optimisticMessage.id ? data : msg)
ReplaceOptimistic(prev, temp, data) ==
  [i \in 1..Len(prev) |-> IF prev[i].id = temp THEN data ELSE prev[i]]

\* faulty variant: the newest entry is dropped, whatever its id
RemoveOptimistic_DropsLast(prev, temp) ==
  IF prev = <<>> THEN prev ELSE SubSeq(prev, 1, Len(prev) - 1)

\* prev => prev.filter(msg => msg.id !== optimisticMessage.id)
RemoveOptimistic(prev, temp) ==
  SelectSeq(prev, LAMBDA m : m.id # temp)

\* prevMessages.some(msg => msg.id === messageWithSender.id)
MessageExists(prev, m) == \E i \in 1..Len(prev) : prev[i].id = m.id

\* faulty variant: the updater appends without looking for the id
AppendIfNew_NoCheck(prev, m) == Append(prev, m)

\* the updater of the push callback
AppendIfNew(prev, m) ==
  IF MessageExists(prev, m) THEN prev ELSE Append(prev, m)

\* faulty variant: the catch block clears the log
MessagesAfterFetchError_Clears(prev) == <<>>

\* the catch block of fetchMessages leaves the log alone
MessagesAfterFetchError(prev) == prev

\* faulty variant: the update lacks .eq('sender_id', from)
MarkReadUpdate_NoSenderFilter(rows, from, to, t) ==
  [i \in 1..Len(rows) |->
     IF rows[i].receiver_id = to /\ rows[i].read_at = Unread
     THEN [rows[i] EXCEPT !.read_at = t]
     ELSE rows[i]]

\* faulty variant: the update lacks .is('read_at', null)
MarkReadUpdate_NoNullFilter(rows, from, to, t) ==
  [i \in 1..Len(rows) |->
     IF (from = All \/ rows[i].sender_id = from) /\ rows[i].receiver_id = to
     THEN [rows[i] EXCEPT !.read_at = t]
     ELSE rows[i]]

\* update({read_at}).eq('sender_id', from).eq('receiver_id', to).is('read_at', null)
\* (from = All: the update of the notification hook, which has no sender filter)
MarkReadUpdate(rows, from, to, t) ==
  [i \in 1..Len(rows) |->
     IF /\ (from = All \/ rows[i].sender_id = from)
        /\ rows[i].receiver_id = to
        /\ rows[i].read_at = Unread
     THEN [rows[i] EXCEPT !.read_at = t]
     ELSE rows[i]]

\* supabase.channel(name)...subscribe()
Subscribe(chs, f) == [chs EXCEPT ![f] = @ + 1]

\* faulty variant: the cleanup leaves the channel open
RemoveChannel_Leaks(chs, c) == chs

\* supabase.removeChannel(channel)
RemoveChannel(chs, c) ==
  IF c = Null THEN chs ELSE [chs EXCEPT ![c] = @ - 1]

\* events queued on a channel die with it
DropEvents(evs, rows, c) == {e \in evs : PeerOf(rows[e]) # c}

\* an INSERT is broadcast to the channels whose filter matches the row
Broadcast(evs, chs, m, n) ==
  IF PeerOf(m) \in Friends /\ chs[PeerOf(m)] > 0 THEN evs \cup {n} ELSE evs


\* ------------------------------------------------- games: pure functions
MaxScore == 2      \* scores a round starts from

Marks   == {"X", "O"}                      \* type Player
Cells   == 1..9                            \* board index + 1
Boards  == [Cells -> Marks \cup {Null}]    \* Array(9) over Player | null
Choices == {"rock", "paper", "scissors"}   \* type Choice

\* const lines of MultiplayerTicTacToe.checkWinner
lines ==
  << <<1, 2, 3>>, <<4, 5, 6>>, <<7, 8, 9>>,
     <<1, 4, 7>>, <<2, 5, 8>>, <<3, 6, 9>>,
     <<1, 5, 9>>, <<3, 5, 7>> >>

\* const winningLines of TicTacToe
winningLines ==
  << <<1, 2, 3>>, <<4, 5, 6>>, <<7, 8, 9>>,
     <<1, 4, 7>>, <<2, 5, 8>>, <<3, 6, 9>>,
     <<1, 5, 9>>, <<3, 5, 7>> >>

\* the for loop over the lines from the k-th on, then the every() test
RECURSIVE CheckLines(_, _, _)
CheckLines(ls, squares, k) ==
  IF k > Len(ls)
  THEN IF \A i \in Cells : squares[i] # Null THEN "tie" ELSE Null
  ELSE LET a == ls[k][1]  b == ls[k][2]  c == ls[k][3] IN
       IF squares[a] # Null /\ squares[a] = squares[b] /\ squares[a] = squares[c]
       THEN squares[a]
       ELSE CheckLines(ls, squares, k + 1)

\* faulty variant: the second diagonal is not looked at
checkWinner_NoAntiDiagonal(squares) == CheckLines(SubSeq(lines, 1, 7), squares, 1)

\* MultiplayerTicTacToe.checkWinner
checkWinner(squares) == CheckLines(lines, squares, 1)

\* TicTacToe.checkWinner
TicTacToeCheckWinner(board) == CheckLines(winningLines, board, 1)

\* the winning pairs spelled out in both determineWinner and
\* determineRoundWinner
PlayerBeats(player, opponent) ==
  \/ player = "rock" /\ opponent = "scissors"
  \/ player = "paper" /\ opponent = "rock"
  \/ player = "scissors" /\ opponent = "paper"

\* RockPaperScissors.determineWinner
determineWinner(player, computer) ==
  IF player = computer THEN "tie"
  ELSE IF PlayerBeats(player, computer) THEN "win"
  ELSE "lose"

\* the score update of RockPaperScissors.playGame
PlayGameScore(score, gameResult) ==
  IF gameResult = "win" THEN [score EXCEPT !.player = @ + 1]
  ELSE IF gameResult = "lose" THEN [score EXCEPT !.computer = @ + 1]
  ELSE score

\* faulty variant: a lost round is also counted for the player
determineRoundWinner_CountsLoss(playerChoice, opponentChoice, myScore, friendScore) ==
  IF playerChoice = opponentChoice
  THEN [result |-> "It's a tie!", my |-> myScore, friend |-> friendScore]
  ELSE IF PlayerBeats(playerChoice, opponentChoice)
  THEN [result |-> "You won this round!", my |-> myScore + 1, friend |-> friendScore]
  ELSE [result |-> "Your friend won this round!", my |-> myScore + 1,
        friend |-> friendScore + 1]

\* MultiplayerRockPaperScissors.determineRoundWinner: the result text and the
\* scores of the payload it sends (my: scores[user.id], friend: scores[friendId])
determineRoundWinner(playerChoice, opponentChoice, myScore, friendScore) ==
  IF playerChoice = opponentChoice
  THEN [result |-> "It's a tie!", my |-> myScore, friend |-> friendScore]
  ELSE IF PlayerBeats(playerChoice, opponentChoice)
  THEN [result |-> "You won this round!", my |-> myScore + 1, friend |-> friendScore]
  ELSE [result |-> "Your friend won this round!", my |-> myScore,
        friend |-> friendScore + 1]

\* ------------------------------------------------ games over the messages
MaxGameLog == 7    \* messages of the conversation the games look at
MaxTyped   == 1    \* of these, texts typed into the chat
MaxStarts  == 2    \* of these, start payloads
MaxRpsLog  == 4    \* messages while the simultaneous-choice game is played

Opponent == "f1"                    \* friendId: the friend played against
Peers    == {User, Opponent}        \* the two clients of the conversation
Squares  == {1, 2, 3, 4, 5}         \* squares that get clicked
Absent   == "undefined"             \* a field the content does not have
NoBoard  == <<>>                    \* board: undefined
NoScores == <<>>                    \* scores: undefined
NoGameId == 0                       \* gameId: '' or undefined
EmptyBoard == [i \in Cells |-> Null]   \* Array(9).fill(null)

OtherPeer(p) == IF p = User THEN Opponent ELSE User

\* JSON.parse(msg.content) of a content that is no JSON text throws
Unparseable ==
  [parses |-> FALSE, gameType |-> Absent, gameId |-> NoGameId,
   board |-> NoBoard, currentPlayer |-> Absent, gameResult |-> Absent,
   action |-> Absent, choice |-> Absent, scores |-> NoScores, result |-> Absent]

\* gameData of handleSquareClick and of startNewGame of the marking game
TicTacToeData(id, b, player, res, act) ==
  [Unparseable EXCEPT !.parses = TRUE, !.gameType = "tictactoe", !.gameId = id,
                      !.board = b, !.currentPlayer = player, !.gameResult = res,
                      !.action = act]

\* a content typed into the chat that the simultaneous-choice game takes
\* for a result of its own: it has no scores
MalformedRps ==
  [Unparseable EXCEPT !.parses = TRUE, !.gameType = "rps", !.action = "result",
                      !.result = "It's a tie!"]
TypedContents == {Unparseable, MalformedRps}

\* a row of the conversation: created_at is its place in the log
GameMessage(p, data) == [sender |-> p, data |-> data]

\* the rows in the messages prop of peer p: those delivered so far and,
\* appended when sent, its own
Visible(log, upTo, p) ==
  {i \in 1..Len(log) : i <= upTo \/ log[i].sender = p}

\* a peer's own rows need no delivery: the prefix grows over them
RECURSIVE Advance(_, _, _)
Advance(log, upTo, p) ==
  IF upTo < Len(log) /\ log[upTo + 1].sender = p
  THEN Advance(log, upTo + 1, p)
  ELSE upTo

\* MultiplayerGameMenu: parse, drop what does not parse, sort by timestamp,
\* filter by gameType; the indices of what is left, which the log orders
GameMessagesOf(log, visible, type) ==
  {i \in visible : log[i].data.parses /\ log[i].data.gameType = type}

\* gameMessages[gameMessages.length - 1], 0 when the list is empty
LatestOf(indices) ==
  IF indices = {} THEN 0 ELSE CHOOSE i \in indices : \A j \in indices : j <= i

\* useState initial values of MultiplayerTicTacToe
InitialTicTacToe ==
  [board |-> EmptyBoard, currentPlayer |-> "X", gameResult |-> Null,
   gameId |-> NoGameId, playerSymbol |-> Null]

\* faulty variant: the result of the latest payload is not taken over
TicTacToeEffect_KeepsResult(st, log, visible, p) ==
  LET k == LatestOf(GameMessagesOf(log, visible, "tictactoe")) IN
  IF k = 0 \/ log[k].data.board = NoBoard THEN st
  ELSE LET latestGame == log[k].data IN
       [board |-> latestGame.board,
        currentPlayer |-> latestGame.currentPlayer,
        gameResult |-> st.gameResult,
        gameId |-> latestGame.gameId,
        playerSymbol |->
          IF latestGame.gameId # NoGameId /\ st.playerSymbol = Null
          THEN IF log[k].sender = p THEN "X" ELSE "O"
          ELSE st.playerSymbol]

\* useEffect(gameMessages) of MultiplayerTicTacToe at peer p
TicTacToeEffect(st, log, visible, p) ==
  LET k == LatestOf(GameMessagesOf(log, visible, "tictactoe")) IN
  IF k = 0 \/ log[k].data.board = NoBoard THEN st
  ELSE LET latestGame == log[k].data IN
       [board |-> latestGame.board,
        currentPlayer |-> latestGame.currentPlayer,
        gameResult |-> latestGame.gameResult,
        gameId |-> latestGame.gameId,
        playerSymbol |->
          IF latestGame.gameId # NoGameId /\ st.playerSymbol = Null
          THEN IF log[k].sender = p THEN "X" ELSE "O"
          ELSE st.playerSymbol]

\* gameData of makeChoice, startNewGame and determineRoundWinner of the
\* simultaneous-choice game
RpsData(id, act, ch, sc, res) ==
  [Unparseable EXCEPT !.parses = TRUE, !.gameType = "rps", !.gameId = id,
                      !.action = act, !.choice = ch, !.scores = sc, !.result = res]

\* useState initial values of MultiplayerRockPaperScissors; timer: a
\* setTimeout of the effect is pending; crashed: the effect threw
InitialRps ==
  [myChoice |-> Null, friendChoice |-> Null, myScore |-> 0, friendScore |-> 0,
   roundResult |-> "", gameId |-> NoGameId, waitingForFriend |-> FALSE,
   timer |-> FALSE, crashed |-> FALSE]

\* the payload determineRoundWinner hands to onGameUpdate at peer p
RoundResultData(st, p, playerChoice, opponentChoice) ==
  LET r == determineRoundWinner(playerChoice, opponentChoice,
                                st.myScore, st.friendScore)
  IN RpsData(st.gameId, "result", Absent,
             [q \in Peers |-> IF q = p THEN r.my ELSE r.friend], r.result)

\* one run of useEffect(gameMessages, myChoice) of
\* MultiplayerRockPaperScissors at peer p: the state it sets and what it sends
RpsEffect(st, log, visible, p) ==
  LET k == LatestOf(GameMessagesOf(log, visible, "rps")) IN
  IF k = 0 THEN [st |-> st, sent |-> <<>>]
  ELSE LET latestGame == log[k].data IN
    IF latestGame.action = "start"
    THEN [st |-> [st EXCEPT !.myScore = 0, !.friendScore = 0, !.myChoice = Null,
                            !.friendChoice = Null, !.roundResult = "",
                            !.gameId = latestGame.gameId,
                            !.waitingForFriend = FALSE],
          sent |-> <<>>]
    ELSE IF latestGame.action = "choice"
    THEN IF log[k].sender # p
         THEN [st |-> [st EXCEPT !.friendChoice = latestGame.choice],
               sent |-> IF st.myChoice # Null
                        THEN <<RoundResultData(st, p, st.myChoice, latestGame.choice)>>
                        ELSE <<>>]
         ELSE [st |-> st, sent |-> <<>>]
    ELSE IF latestGame.action = "result"
    THEN IF latestGame.scores = NoScores
         THEN [st |-> [st EXCEPT !.crashed = TRUE], sent |-> <<>>]
         ELSE [st |-> [st EXCEPT !.myScore = latestGame.scores[p],
                                 !.friendScore = latestGame.scores[OtherPeer(p)],
                                 !.roundResult = latestGame.result,
                                 !.timer = TRUE],
               sent |-> <<>>]
    ELSE [st |-> st, sent |-> <<>>]

\* the log after peer p has sent the payloads
RECURSIVE SendAll(_, _, _)
SendAll(log, p, datas) ==
  IF datas = <<>> THEN log
  ELSE SendAll(Append(log, GameMessage(p, Head(datas))), p, Tail(datas))

\* the effect run until the messages prop stops changing: a payload the
\* effect sends is appended to the prop, which runs the effect again
RpsSettle(st, log, upTo, p) ==
  LET one == RpsEffect(st, log, Visible(log, upTo, p), p) IN
  IF one.sent = <<>> \/ one.st.crashed
  THEN [st |-> one.st, log |-> log]
  ELSE LET log2 == SendAll(log, p, one.sent)
           two == RpsEffect(one.st, log2, Visible(log2, upTo, p), p)
       IN [st |-> two.st, log |-> log2]

\* -------------------------------------------------- notification counters
MaxRecords == 2    \* rows inserted while the hook is mounted
MaxClears  == 1    \* calls of the hook's markMessagesAsRead

DayTicks  == 2     \* the 24 hours of the posts query, in clock ticks
HourTicks == 1     \* the hour of the chat query, in clock ticks
LongAgo   == -3    \* created_at of a row older than both

Categories == {"messages", "friendRequests", "posts", "chat"}   \* keyof NotificationCounts
Views      == {"feed", "chat", "profile", "friends", "messages"}
Stranger   == "f1"     \* a user other than the signed-in one
Pending    == "pending"

\* useState<NotificationCounts>
NoCounts == [c \in Categories |-> 0]

\* a row of one of the four tables, with the columns the hook looks at
\* (receiver_id, read_at and status are undefined where the table has none)
Record(table, receiver, author, t) ==
  [table |-> table, receiver_id |-> receiver, author_id |-> author,
   read_at |-> Unread, status |-> Pending, created_at |-> t]

DirectMessageTo(receiver, t) == Record("direct_messages", receiver, Absent, t)
FriendRequestTo(receiver, t) == Record("friend_requests", receiver, Absent, t)
PostBy(author, t)            == Record("posts", Absent, author, t)
ChatMessageBy(author, t)     == Record("messages", Absent, author, t)

\* the rows a client can insert
NewRecords(t) ==
  {DirectMessageTo(u, t) : u \in {User, Stranger}}
    \cup {FriendRequestTo(u, t) : u \in {User, Stranger}}
    \cup {PostBy(u, t) : u \in {User, Stranger}}
    \cup {ChatMessageBy(u, t) : u \in {User, Stranger}}

\* the counter a table's channel feeds
CategoryOf(table) ==
  CASE table = "direct_messages" -> "messages"
    [] table = "friend_requests" -> "friendRequests"
    [] table = "posts"           -> "posts"
    [] table = "messages"        -> "chat"

\* faulty variant: direct messages and friend requests count whoever
\* receives them
Qualifies_AnyReceiver(row) ==
  IF row.table \in {"direct_messages", "friend_requests"}
  THEN TRUE
  ELSE row.author_id # User

\* the test each of the four callbacks makes on payload.new
Qualifies(row) ==
  IF row.table \in {"direct_messages", "friend_requests"}
  THEN row.receiver_id = User
  ELSE row.author_id # User

\* the callback of a table's channel
OnInsert(prev, row) ==
  IF Qualifies(row)
  THEN [prev EXCEPT ![CategoryOf(row.table)] = @ + 1]
  ELSE prev

\* faulty variant: every counter is reset
clearNotifications_ClearsAll(prev, type) == NoCounts

\* setCounts(prev => ({ ...prev, [type]: 0 }))
clearNotifications(prev, type) == [prev EXCEPT ![type] = 0]

\* faulty variant: a failed write leaves the counter as it was
CountsAfterMark_KeepsOnError(prev, written) ==
  IF written THEN clearNotifications(prev, "messages") ELSE prev

\* markMessagesAsRead after its await: the result of the write is not looked at
CountsAfterMark(prev, written) == clearNotifications(prev, "messages")

\* the four count queries of fetchCounts
UnreadMessageCount(rows) ==
  Cardinality({i \in 1..Len(rows) :
                 /\ rows[i].table = "direct_messages"
                 /\ rows[i].receiver_id = User
                 /\ rows[i].read_at = Unread})

FriendRequestCount(rows) ==
  Cardinality({i \in 1..Len(rows) :
                 /\ rows[i].table = "friend_requests"
                 /\ rows[i].receiver_id = User
                 /\ rows[i].status = Pending})

PostCount(rows, t) ==
  Cardinality({i \in 1..Len(rows) :
                 /\ rows[i].table = "posts"
                 /\ rows[i].created_at >= t - DayTicks
                 /\ rows[i].author_id # User})

ChatCount(rows, t) ==
  Cardinality({i \in 1..Len(rows) :
                 /\ rows[i].table = "messages"
                 /\ rows[i].created_at >= t - HourTicks
                 /\ rows[i].author_id # User})

\* the query fetchCounts makes at each of its four awaits
CountQuery(stage, rows, t) ==
  CASE stage = 1 -> UnreadMessageCount(rows)
    [] stage = 2 -> FriendRequestCount(rows)
    [] stage = 3 -> PostCount(rows, t)
    [] stage = 4 -> ChatCount(rows, t)

\* fetchCounts called, no query answered yet
CountingStarted == [stage |-> 1, result |-> <<>>]

\* no fetchCounts in flight
NotCounting == [stage |-> 0, result |-> <<>>]

\* setCounts({messages, friendRequests, posts, chat}) of fetchCounts
FetchedCounts(result) ==
  [c \in Categories |->
     CASE c = "messages"       -> result[1]
       [] c = "friendRequests" -> result[2]
       [] c = "posts"          -> result[3]
       [] c = "chat"           -> result[4]]

\* the category a view consumes; profile consumes none
Consumes(v) ==
  CASE v = "feed"     -> "posts"
    [] v = "chat"     -> "chat"
    [] v = "friends"  -> "friendRequests"
    [] v = "messages" -> "messages"
    [] OTHER          -> Null

\* the tables when the hook mounts: an unread message for the user and a
\* post and a chat message of a friend that are older than a day
RecordsAtMount ==
  << DirectMessageTo(User, LongAgo), PostBy(Stranger, LongAgo),
     ChatMessageBy(Stranger, LongAgo) >>

\* the header has just mounted the hook: useEffect has called fetchCounts
\* and subscribed the four channels
NotifInit ==
  /\ counts = NoCounts
  /\ records = RecordsAtMount
  /\ notices = {}
  /\ counting = CountingStarted
  /\ clearing = <<>>
  /\ view = "feed"

\* ------------------------------------------------------- friend requests
MaxRequests == 2   \* rows of friend_requests

MemberOrder == <<"a", "b", "c">>   \* profiles.id of the users, in UUID order
Members == {MemberOrder[i] : i \in 1..Len(MemberOrder)}
Accepted == "accepted"
Rejected == "rejected"

\* profiles.username of a user
UsernameOf(u) == <<u>>

\* values of the search input: a user's name, typed with or without a
\* leading blank, a name nobody has, and a blank
SearchInputs ==
  {UsernameOf(u) : u \in Members} \cup {<<" ">> \o UsernameOf(u) : u \in Members}
    \cup {<<"z">>, <<" ">>}

\* from('profiles').select().eq('username', name).single()
ProfileByUsername(name) ==
  IF \E u \in Members : UsernameOf(u) = name
  THEN CHOOSE u \in Members : UsernameOf(u) = name
  ELSE Null

\* x < y on profile ids
Before(x, y) ==
  \E i, j \in 1..Len(MemberOrder) : i < j /\ MemberOrder[i] = x /\ MemberOrder[j] = y

LEAST(x, y)    == IF Before(y, x) THEN y ELSE x
GREATEST(x, y) == IF Before(y, x) THEN x ELSE y

\* UNIQUE(sender_id, receiver_id) of friend_requests
RequestExists(rows, sender, receiver) ==
  \E i \in 1..Len(rows) : rows[i].sender_id = sender /\ rows[i].receiver_id = receiver

\* faulty variant: the table has no unique constraint
InsertFriendRequest_NoUnique(rows, sender, receiver) ==
  [error |-> "",
   rows |-> Append(rows, [id |-> Len(rows) + 1, sender_id |-> sender,
                          receiver_id |-> receiver, status |-> Pending])]

\* insert({sender_id, receiver_id}) into friend_requests: the error code and
\* the table afterwards
InsertFriendRequest(rows, sender, receiver) ==
  IF RequestExists(rows, sender, receiver)
  THEN [error |-> "23505", rows |-> rows]
  ELSE [error |-> "",
        rows |-> Append(rows, [id |-> Len(rows) + 1, sender_id |-> sender,
                               receiver_id |-> receiver, status |-> Pending])]

\* UNIQUE(user1_id, user2_id) of friendships
FriendshipExists(edges, u1, u2) ==
  \E i \in 1..Len(edges) : edges[i].user1_id = u1 /\ edges[i].user2_id = u2

\* faulty variant: the insert has no ON CONFLICT clause and the table no
\* unique constraint
InsertFriendship_NoConflict(edges, u1, u2) ==
  Append(edges, [user1_id |-> u1, user2_id |-> u2])

\* INSERT INTO friendships ... ON CONFLICT DO NOTHING
InsertFriendship(edges, u1, u2) ==
  IF FriendshipExists(edges, u1, u2) THEN edges
  ELSE Append(edges, [user1_id |-> u1, user2_id |-> u2])

\* trigger on_friend_request_accepted, AFTER UPDATE FOR EACH ROW
handle_friend_request_accepted(edges, old, new) ==
  IF new.status = Accepted /\ old.status = Pending
  THEN InsertFriendship(edges, LEAST(new.sender_id, new.receiver_id),
                        GREATEST(new.sender_id, new.receiver_id))
  ELSE edges

\* the select of fetchFriendRequests for the requests a user received
ReceivedPending(rows, u) ==
  {rows[i].id : i \in {j \in 1..Len(rows) : rows[j].receiver_id = u
                                            /\ rows[j].status = Pending}}

\* nobody has sent a request; no friends view lists any
FriendInit ==
  /\ friend_requests = <<>>
  /\ friendships = <<>>
  /\ pendingRequests = [u \in Members |-> {}]
  /\ ftoast = [u \in Members |-> ""]

\* ------------------------------------------------------- the chat room
MaxRoomStore == 3   \* rows of the table messages

\* a row of the table messages; created_at is the place in insertion order
RoomRow(n, author) == [id |-> n, author_id |-> author, created_at |-> n]

\* select('*').order('created_at', { ascending: true })
SelectRoom(rows) == OrderByCreatedAt(rows)

\* prev => [...prev, payload.new]
AppendPayload(prev, row) == Append(prev, row)

\* the room has just mounted: useEffect has called fetchMessages and
\* subscribed the channel
RoomInit ==
  /\ roomStore = <<>>
  /\ roomMessages = <<>>
  /\ roomEvents = {}
  /\ roomFetch = [stage |-> "sent", data |-> <<>>]

SideInit == NotifInit /\ FriendInit /\ RoomInit /\ pushed = {}

\* ------------------------------------------------------------------ Init
\* The state right after handleViewChange('messages') of the header: the
\* view is mounted with its initial useState values and the notification
\* hook's markMessagesAsRead has been issued.
ChatInit ==
  /\ now = 0
  /\ store = <<>>
  /\ mounted = TRUE
  /\ selectedFriend = Null
  /\ messages = <<>>
  /\ newMessage = <<>>
  /\ imageUrl = NoImage
  /\ loading = FALSE
  /\ channel = Null
  /\ channels = [f \in Friends |-> 0]
  /\ events = {}
  /\ callbacks = {}
  /\ sends = {}
  /\ fetches = {}
  /\ marks = {All}
  /\ toasts = <<>>
  /\ marked = {}
  /\ last = "other"

\* both peers have the conversation open, which holds no message yet
GameInit ==
  /\ glog = <<>>
  /\ seen = [p \in Peers |-> 0]
  /\ ttt = [p \in Peers |-> InitialTicTacToe]
  /\ rps = [p \in Peers |-> InitialRps]

\* no function called
FnIdle ==
  /\ arg = <<>>
  /\ out = <<>>
  /\ done = FALSE

Init == ChatInit /\ GameInit /\ SideInit /\ FnIdle

viewVars  == <<mounted, selectedFriend, messages, newMessage, imageUrl, loading>>
inputVars == <<newMessage, imageUrl, loading>>
chanVars  == <<channel, channels, events>>

\* --------------------------------------------------------------- actions
\* time passes
Tick ==
  /\ now < MaxTime
  /\ now' = now + 1
  /\ toasts' = <<>>
  /\ last' = "other"
  /\ UNCHANGED <<gameVars, fnVars, sideVars, marked, store, viewVars, chanVars, callbacks, sends, fetches, marks>>

\* a friend sends the user a message from their own client
PeerInsert(f) ==
  /\ Len(store) < MaxStore
  /\ store' = InsertRow(store, f, User, <<"a">>, NoImage, now)
  /\ events' = Broadcast(events, channels, store'[Len(store')], Len(store'))
  /\ toasts' = <<>>
  /\ last' = "other"
  /\ marked' = {}
  /\ UNCHANGED <<gameVars, fnVars, sideVars, now, viewVars, channel, channels, callbacks, sends, fetches, marks>>

\* onClick={() => setSelectedFriend(conversation.friend)} and the two effects
\* that depend on selectedFriend: fetchMessages(), markMessagesAsRead() and
\* the subscription
SelectFriend(f) ==
  /\ mounted /\ selectedFriend = Null
  /\ Cardinality(fetches) < MaxFetches
  /\ selectedFriend' = f
  /\ fetches' = fetches \cup {[friend |-> f, stage |-> "sent", data |-> <<>>]}
  /\ marks' = marks \cup {f}
  /\ channels' = Subscribe(channels, f)
  /\ channel' = f
  /\ toasts' = <<>>
  /\ last' = "other"
  /\ pushed' = {}
  /\ UNCHANGED <<gameVars, fnVars, notifVars, friendVars, roomVars, marked, now, store, mounted, messages, inputVars, events, callbacks, sends>>

\* onClick={() => setSelectedFriend(null)}: the cleanup of the subscription
\* effect runs, no new effect body runs
Deselect ==
  /\ mounted /\ selectedFriend # Null
  /\ selectedFriend' = Null
  /\ channels' = RemoveChannel(channels, channel)
  /\ events' = DropEvents(events, store, channel)
  /\ channel' = Null
  /\ toasts' = <<>>
  /\ last' = "other"
  /\ UNCHANGED <<gameVars, fnVars, sideVars, marked, now, store, mounted, messages, inputVars, callbacks, sends, fetches, marks>>

\* the user leaves the messages view: the component unmounts, its effect
\* cleanups run and its state is discarded; continuations of its pending
\* reads can no longer change anything, a pending insert can still reach
\* the store
Unmount ==
  /\ mounted
  /\ mounted' = FALSE
  /\ selectedFriend' = Null
  /\ messages' = <<>>
  /\ newMessage' = <<>>
  /\ imageUrl' = NoImage
  /\ loading' = FALSE
  /\ channels' = RemoveChannel(channels, channel)
  /\ events' = DropEvents(events, store, channel)
  /\ channel' = Null
  /\ callbacks' = {}
  /\ fetches' = {}
  /\ toasts' = <<>>
  /\ last' = "other"
  /\ pushed' = {}
  /\ UNCHANGED <<gameVars, fnVars, notifVars, friendVars, roomVars, marked, now, store, sends, marks>>

\* the "Messages" item of the header clicked while the view is open:
\* handleViewChange('messages') calls the hook's markMessagesAsRead again
HandleViewChangeMessages ==
  /\ mounted
  /\ All \notin marks
  /\ marks' = marks \cup {All}
  /\ toasts' = <<>>
  /\ last' = "other"
  /\ UNCHANGED <<gameVars, fnVars, sideVars, marked, now, store, viewVars, chanVars, callbacks, sends, fetches>>

\* onChange of the compose input
SetNewMessage(text) ==
  /\ mounted /\ selectedFriend # Null
  /\ text # newMessage
  /\ newMessage' = text
  /\ toasts' = <<>>
  /\ last' = "other"
  /\ UNCHANGED <<gameVars, fnVars, sideVars, marked, now, store, mounted, selectedFriend, messages, imageUrl, loading,
                 chanVars, callbacks, sends, fetches, marks>>

\* onImageUploaded / onImageRemoved of ImageUpload (disabled while loading)
SetImageUrl(img) ==
  /\ mounted /\ selectedFriend # Null /\ ~loading
  /\ img # imageUrl
  /\ imageUrl' = img
  /\ toasts' = <<>>
  /\ last' = "other"
  /\ UNCHANGED <<gameVars, fnVars, sideVars, marked, now, store, mounted, selectedFriend, messages, newMessage, loading,
                 chanVars, callbacks, sends, fetches, marks>>

\* sendMessage past its guard, up to the await of the insert
BeginSend(game) ==
  /\ Cardinality(sends) < MaxSends
  /\ loading' = TRUE
  /\ messages' = AppendOptimistic(messages,
                   OptimisticMessage(now, selectedFriend, Trim(newMessage), imageUrl))
  /\ newMessage' = <<>>
  /\ imageUrl' = NoImage
  /\ sends' = sends \cup {[temp |-> TempId(now), friend |-> selectedFriend,
                           content |-> Trim(newMessage), image |-> imageUrl,
                           row |-> 0, game |-> game]}

\* the toast sendGameResult shows once its `await sendMessage(...)` returns
GameToast(game) == IF game THEN <<"Game Result Sent">> ELSE <<>>

\* <form onSubmit={sendMessage}>: the submit button is disabled unless canSend
Submit ==
  /\ mounted /\ selectedFriend # Null
  /\ CanSend(newMessage, imageUrl, loading)
  /\ ~RejectsSend(newMessage, imageUrl, selectedFriend)
  /\ BeginSend(FALSE)
  /\ toasts' = <<>>
  /\ last' = "other"
  /\ UNCHANGED <<gameVars, fnVars, sideVars, marked, now, store, mounted, selectedFriend, chanVars, callbacks, fetches, marks>>

\* sendGameResult(message), called by the game menu: it calls sendMessage
\* with a mock event; sendMessage reads the compose state, not the event
SendGameResult(message) ==
  /\ mounted /\ selectedFriend # Null
  /\ IF RejectsSend(newMessage, imageUrl, selectedFriend)
     THEN /\ toasts' = <<"Cannot send empty message.">> \o GameToast(TRUE)
          /\ last' = "other"
          /\ UNCHANGED <<messages, inputVars, sends>>
     ELSE /\ BeginSend(TRUE)
          /\ toasts' = <<>>
          /\ last' = "other"
  /\ UNCHANGED <<gameVars, fnVars, sideVars, marked, now, store, mounted, selectedFriend, chanVars, callbacks, fetches, marks>>

\* the store applies the insert of a send
StoreInsert(s) ==
  /\ s \in sends /\ s.row = 0
  /\ Len(store) < MaxStore
  /\ store' = InsertRow(store, User, s.friend, s.content, s.image, now)
  /\ events' = Broadcast(events, channels, store'[Len(store')], Len(store'))
  /\ sends' = (sends \ {s}) \cup {[s EXCEPT !.row = Len(store')]}
  /\ toasts' = <<>>
  /\ last' = "other"
  /\ marked' = {}
  /\ UNCHANGED <<gameVars, fnVars, sideVars, now, viewVars, channel, channels, callbacks, fetches, marks>>

\* the insert response arrives without error: lines 305-314 and the finally
\* (fetchConversations only rebuilds the conversation list, which no step
\* of the chat reads)
SendConfirm(s) ==
  /\ s \in sends /\ s.row # 0
  /\ sends' = sends \ {s}
  /\ IF mounted
     THEN /\ messages' = ReplaceOptimistic(messages, s.temp, Entry(store[s.row]))
          /\ loading' = FALSE
          /\ toasts' = GameToast(s.game)
     ELSE /\ toasts' = <<>>
          /\ UNCHANGED <<messages, loading>>
  /\ last' = IF mounted /\ MessageExists(messages, [id |-> s.temp]) THEN "confirm" ELSE "other"
  /\ UNCHANGED <<gameVars, fnVars, sideVars, marked, now, store, mounted, selectedFriend, newMessage, imageUrl,
                 chanVars, callbacks, fetches, marks>>

\* the insert fails: the catch block and the finally
SendFail(s) ==
  /\ s \in sends /\ s.row = 0
  /\ sends' = sends \ {s}
  /\ IF mounted
     THEN /\ messages' = RemoveOptimistic(messages, s.temp)
          /\ loading' = FALSE
          /\ toasts' = <<"Error Sending Message">> \o GameToast(s.game)
     ELSE /\ toasts' = <<>>
          /\ UNCHANGED <<messages, loading>>
  /\ last' = "other"
  /\ UNCHANGED <<gameVars, fnVars, sideVars, marked, now, store, mounted, selectedFriend, newMessage, imageUrl,
                 chanVars, callbacks, fetches, marks>>

\* the store evaluates the select of a fetchMessages
FetchRead(r) ==
  /\ r \in fetches /\ r.stage = "sent"
  /\ fetches' = (fetches \ {r}) \cup
                {[r EXCEPT !.stage = "read", !.data = SelectConversation(store, r.friend)]}
  /\ toasts' = <<>>
  /\ last' = "other"
  /\ UNCHANGED <<gameVars, fnVars, sideVars, marked, now, store, viewVars, chanVars, callbacks, sends, marks>>

\* the select response arrives: setMessages(data || [])
FetchDone(r) ==
  /\ r \in fetches /\ r.stage = "read"
  /\ fetches' = fetches \ {r}
  /\ messages' = IF mounted THEN r.data ELSE messages
  /\ toasts' = <<>>
  /\ last' = "other"
  /\ UNCHANGED <<gameVars, fnVars, sideVars, marked, now, store, mounted, selectedFriend, inputVars, chanVars,
                 callbacks, sends, marks>>

\* the select fails: the catch block of fetchMessages
FetchFail(r) ==
  /\ r \in fetches /\ r.stage = "sent"
  /\ fetches' = fetches \ {r}
  /\ messages' = IF mounted THEN MessagesAfterFetchError(messages) ELSE messages
  /\ toasts' = IF mounted THEN <<"Error">> ELSE <<>>
  /\ last' = "other"
  /\ UNCHANGED <<gameVars, fnVars, sideVars, marked, now, store, mounted, selectedFriend, inputVars, chanVars,
                 callbacks, sends, marks>>

\* the channel delivers an INSERT event: the callback starts and awaits its
\* select of the row by id
PushDeliver(n) ==
  /\ n \in events
  /\ events' = events \ {n}
  /\ callbacks' = callbacks \cup {n}
  /\ toasts' = <<>>
  /\ last' = "other"
  /\ UNCHANGED <<gameVars, fnVars, sideVars, marked, now, store, viewVars, channel, channels, sends, fetches, marks>>

\* the callback's select returns the row: lines 113-135 (the toast is shown
\* whether or not the updater appended; fetchConversations as above)
PushCallbackDone(n) ==
  /\ n \in callbacks
  /\ callbacks' = callbacks \ {n}
  /\ IF mounted
     THEN /\ messages' = AppendIfNew(messages, Entry(store[n]))
          /\ toasts' = IF store[n].sender_id # User THEN <<"New Message">> ELSE <<>>
          /\ last' = IF MessageExists(messages, Entry(store[n])) THEN "pushDup" ELSE "other"
     ELSE /\ toasts' = <<>>
          /\ last' = "other"
          /\ UNCHANGED messages
  /\ pushed' = IF mounted /\ selectedFriend # Null /\ InConversation(store[n], selectedFriend)
               THEN pushed \cup {n} ELSE pushed
  /\ UNCHANGED <<gameVars, fnVars, notifVars, friendVars, roomVars, marked, now, store, mounted, selectedFriend, inputVars, chanVars, sends,
                 fetches, marks>>

\* the callback's select fails: `if (fetchError) return`
PushCallbackFail(n) ==
  /\ n \in callbacks
  /\ callbacks' = callbacks \ {n}
  /\ toasts' = <<>>
  /\ last' = "other"
  /\ UNCHANGED <<gameVars, fnVars, sideVars, marked, now, store, viewVars, chanVars, sends, fetches, marks>>

\* the store applies a read-marking update
MarkApply(p) ==
  /\ p \in marks
  /\ marks' = marks \ {p}
  /\ store' = MarkReadUpdate(store, p, User, now)
  /\ marked' = marked \cup {p}
  /\ toasts' = <<>>
  /\ last' = IF p \in marked \/ All \in marked THEN "markAgain" ELSE "other"
  /\ UNCHANGED <<gameVars, fnVars, sideVars, now, viewVars, chanVars, callbacks, sends, fetches>>

\* a read-marking update fails; the error is logged or ignored
MarkFail(p) ==
  /\ p \in marks
  /\ marks' = marks \ {p}
  /\ toasts' = <<>>
  /\ last' = "other"
  /\ UNCHANGED <<gameVars, fnVars, sideVars, marked, now, store, viewVars, chanVars, callbacks, sends, fetches>>

\* what the user, the friends and the clock do
Environment ==
  \/ Tick
  \/ \E f \in Friends : PeerInsert(f)
  \/ \E f \in Friends : SelectFriend(f)
  \/ Deselect
  \/ Unmount

\* loading a conversation
Loading ==
  \/ \E r \in fetches : FetchRead(r)
  \/ \E r \in fetches : FetchDone(r)
  \/ \E r \in fetches : FetchFail(r)

\* sending
Sending ==
  \/ Submit
  \/ \E message \in GameMessages : SendGameResult(message)
  \/ \E s \in sends : StoreInsert(s)
  \/ \E s \in sends : SendConfirm(s)
  \/ \E s \in sends : SendFail(s)

\* composing: any text, with or without an image
Composing ==
  \/ \E text \in TextInputs : SetNewMessage(text)
  \/ \E img \in Images \cup {NoImage} : SetImageUrl(img)

\* composing a text message
Typing == \E text \in PlainTexts : SetNewMessage(text)

\* the realtime channel
Pushing ==
  \/ \E n \in events : PushDeliver(n)
  \/ \E n \in callbacks : PushCallbackDone(n)
  \/ \E n \in callbacks : PushCallbackFail(n)

\* read-marking
Marking ==
  \/ HandleViewChangeMessages
  \/ \E p \in marks : MarkApply(p)
  \/ \E p \in marks : MarkFail(p)

\* the view with text messages
Next == Environment \/ Loading \/ Typing \/ Sending \/ Pushing

Spec == Init /\ [][Next]_vars

\* the compose form in every state of its inputs
ComposeNext ==
  \/ Tick
  \/ \E f \in Friends : SelectFriend(f)
  \/ Deselect
  \/ Loading
  \/ Composing
  \/ Sending

ComposeSpec == Init /\ [][ComposeNext]_vars

\* the read-marking of the view and of the notification hook
MarkNext == Environment \/ Loading \/ Marking

MarkSpec == Init /\ [][MarkNext]_vars

\* conversations opened and closed, text messages sent and rows marked as
\* read, without the push channel
Conversing ==
  \/ Tick
  \/ \E f \in Friends : PeerInsert(f)
  \/ \E f \in Friends : SelectFriend(f)
  \/ Deselect

Posting ==
  \/ Submit
  \/ \E s \in sends : StoreInsert(s)

Reading == \E p \in marks : MarkApply(p)

ReadNext == Conversing \/ Loading \/ Typing \/ Posting \/ Reading

ReadSpec == Init /\ [][ReadNext]_vars

\* a board handed to win detection
WinInit ==
  /\ ChatInit /\ GameInit /\ SideInit
  /\ arg \in Boards
  /\ out = Null
  /\ done = FALSE

\* checkWinner(newBoard) of the multiplayer game
CallCheckWinner ==
  /\ ~done
  /\ out' = [by |-> "multiplayer", result |-> checkWinner(arg)]
  /\ done' = TRUE
  /\ UNCHANGED <<arg, chatVars, gameVars, sideVars>>

\* checkWinner(newBoard) of the local game
CallTicTacToeCheckWinner ==
  /\ ~done
  /\ out' = [by |-> "local", result |-> TicTacToeCheckWinner(arg)]
  /\ done' = TRUE
  /\ UNCHANGED <<arg, chatVars, gameVars, sideVars>>

WinNext == CallCheckWinner \/ CallTicTacToeCheckWinner

WinSpec == WinInit /\ [][WinNext]_vars

\* two choices and the scores before the round
RoundInit ==
  /\ ChatInit /\ GameInit /\ SideInit
  /\ arg \in [player : Choices, opponent : Choices,
              my : 0..MaxScore, friend : 0..MaxScore]
  /\ out = Null
  /\ done = FALSE

\* playGame(choice) of the local game, the computer's choice being any
PlayGame ==
  /\ ~done
  /\ LET gameResult == determineWinner(arg.player, arg.opponent)
         score == PlayGameScore([player |-> arg.my, computer |-> arg.friend],
                                gameResult)
     IN out' = [by |-> "local",
                winner |-> CASE gameResult = "win" -> "player"
                             [] gameResult = "lose" -> "opponent"
                             [] OTHER -> "none",
                my |-> score.player, friend |-> score.computer]
  /\ done' = TRUE
  /\ UNCHANGED <<arg, chatVars, gameVars, sideVars>>

\* determineRoundWinner(playerChoice, opponentChoice) of the multiplayer game
DetermineRoundWinner ==
  /\ ~done
  /\ LET r == determineRoundWinner(arg.player, arg.opponent, arg.my, arg.friend)
     IN out' = [by |-> "multiplayer",
                winner |-> CASE r.result = "You won this round!" -> "player"
                             [] r.result = "Your friend won this round!" -> "opponent"
                             [] OTHER -> "none",
                my |-> r.my, friend |-> r.friend]
  /\ done' = TRUE
  /\ UNCHANGED <<arg, chatVars, gameVars, sideVars>>

RoundNext == PlayGame \/ DetermineRoundWinner

RoundSpec == RoundInit /\ [][RoundNext]_vars

\* -------------------------------------------------- the conversation index
MaxFriends == 3    \* length of the friends list
MaxStamp   == 2    \* latest created_at of a stored message

Profiles  == {"f1", "f2", "f3"}   \* profiles a friends list is drawn from
Stamps    == 0..MaxStamp          \* created_at values
NoMessage == -1                   \* lastMessage: undefined

\* friends lists: fetchFriends yields one profile per friendship
FriendsLists ==
  {l \in UNION {[1..n -> Profiles] : n \in 0..MaxFriends} :
     \A i, j \in 1..Len(l) : i # j => l[i] # l[j]}

\* .or(and(sender_id.eq.user, receiver_id.eq.friend), and(...))
\* .order('created_at', {ascending: false}).limit(1).single(): created_at of
\* the row returned, the query failing when it errs or finds no row
LastMessage(rows, failed, friend) ==
  LET found == {r[2] : r \in {r \in rows : r[1] = friend}} IN
  IF friend \in failed \/ found = {} THEN NoMessage
  ELSE CHOOSE t \in found : \A u \in found : u <= t

\* friendsList.map(...): one result per element of the list
ConversationResults(friendsList, rows, failed) ==
  [i \in 1..Len(friendsList) |->
     [friend |-> friendsList[i],
      lastMessage |-> LastMessage(rows, failed, friendsList[i])]]

\* faulty variant: the oldest conversation first
CompareConversations_Ascending(a, b) ==
  IF a.lastMessage = NoMessage /\ b.lastMessage = NoMessage THEN 0
  ELSE IF a.lastMessage = NoMessage THEN 1
  ELSE IF b.lastMessage = NoMessage THEN -1
  ELSE a.lastMessage - b.lastMessage

\* the comparator handed to sort
CompareConversations(a, b) ==
  IF a.lastMessage = NoMessage /\ b.lastMessage = NoMessage THEN 0
  ELSE IF a.lastMessage = NoMessage THEN 1
  ELSE IF b.lastMessage = NoMessage THEN -1
  ELSE b.lastMessage - a.lastMessage

\* Array.prototype.sort is stable: an element goes behind every element
\* that does not compare greater
RECURSIVE InsertConversation(_, _)
InsertConversation(sorted, c) ==
  IF sorted = <<>> THEN <<c>>
  ELSE IF CompareConversations(Head(sorted), c) <= 0
  THEN <<Head(sorted)>> \o InsertConversation(Tail(sorted), c)
  ELSE <<c>> \o sorted

RECURSIVE SortConversations(_)
SortConversations(cs) ==
  IF cs = <<>> THEN <<>>
  ELSE InsertConversation(SortConversations(SubSeq(cs, 1, Len(cs) - 1)),
                          cs[Len(cs)])

\* a friends list, the messages exchanged with each profile as pairs of
\* profile and created_at, and the profiles whose query fails
ConversationsInit ==
  /\ ChatInit /\ GameInit /\ SideInit
  /\ arg \in [friendsList : FriendsLists,
              rows : SUBSET (Profiles \X Stamps),
              failed : SUBSET Profiles]
  /\ out = <<>>
  /\ done = FALSE

\* fetchConversations(friendsList) up to setConversations
FetchConversations ==
  /\ ~done
  /\ out' = SortConversations(
              ConversationResults(arg.friendsList, arg.rows, arg.failed))
  /\ done' = TRUE
  /\ UNCHANGED <<arg, chatVars, gameVars, sideVars>>

ConversationsNext == FetchConversations

ConversationsSpec == ConversationsInit /\ [][ConversationsNext]_vars

\* ------------------------------------------- the marking game, two peers
\* contents typed into the chat so far
TypedCount(log) == Cardinality({i \in 1..Len(log) : log[i].data \in TypedContents})

\* start payloads sent so far
StartCount(log) == Cardinality({i \in 1..Len(log) : log[i].data.action = "start"})

\* startNewGame at peer p; Date.now() is the place the message takes in
\* the log, which no other game has
TttStart(p) ==
  /\ Len(glog) < MaxGameLog /\ StartCount(glog) < MaxStarts
  /\ LET newGameId == Len(glog) + 1
         st == [board |-> EmptyBoard, currentPlayer |-> "X", gameResult |-> Null,
                gameId |-> newGameId, playerSymbol |-> "X"]
     IN /\ glog' = Append(glog, GameMessage(p,
                     TicTacToeData(newGameId, EmptyBoard, "X", Null, "start")))
        /\ seen' = [seen EXCEPT ![p] = Advance(glog', @, p)]
        /\ ttt' = [ttt EXCEPT ![p] =
                     TicTacToeEffect(st, glog', Visible(glog', seen'[p], p), p)]
  /\ UNCHANGED <<rps, chatVars, fnVars, sideVars>>

\* handleSquareClick(index) at peer p, past its two early returns
TttClick(p, index) ==
  /\ Len(glog) < MaxGameLog
  /\ ttt[p].board[index] = Null /\ ttt[p].gameResult = Null
  /\ ttt[p].playerSymbol # Null /\ ttt[p].currentPlayer = ttt[p].playerSymbol
  /\ LET newBoard == [ttt[p].board EXCEPT ![index] = ttt[p].currentPlayer]
         winner == checkWinner(newBoard)
         nextPlayer == IF ttt[p].currentPlayer = "X" THEN "O" ELSE "X"
         id == IF ttt[p].gameId # NoGameId THEN ttt[p].gameId ELSE Len(glog) + 1
         st == [ttt[p] EXCEPT !.board = newBoard, !.currentPlayer = nextPlayer,
                              !.gameResult = winner]
     IN /\ glog' = Append(glog, GameMessage(p,
                     TicTacToeData(id, newBoard, nextPlayer, winner, "move")))
        /\ seen' = [seen EXCEPT ![p] = Advance(glog', @, p)]
        /\ ttt' = [ttt EXCEPT ![p] =
                     TicTacToeEffect(st, glog', Visible(glog', seen'[p], p), p)]
  /\ UNCHANGED <<rps, chatVars, fnVars, sideVars>>

\* the next row of the conversation reaches the messages prop of peer p
TttDeliver(p) ==
  /\ seen[p] < Len(glog)
  /\ seen' = [seen EXCEPT ![p] = Advance(glog, @ + 1, p)]
  /\ ttt' = [ttt EXCEPT ![p] =
               TicTacToeEffect(@, glog, Visible(glog, seen'[p], p), p)]
  /\ UNCHANGED <<glog, rps, chatVars, fnVars, sideVars>>

\* "Back to Games", then the game chosen again: the component is mounted
\* anew at peer p
TttReopen(p) ==
  /\ ttt' = [ttt EXCEPT ![p] =
               TicTacToeEffect(InitialTicTacToe, glog, Visible(glog, seen[p], p), p)]
  /\ UNCHANGED <<glog, seen, rps, chatVars, fnVars, sideVars>>

TttNext ==
  \/ \E p \in Peers : TttStart(p)
  \/ \E p \in Peers : \E index \in Squares : TttClick(p, index)
  \/ \E p \in Peers : TttDeliver(p)
  \/ \E p \in Peers : TttReopen(p)

TttSpec == Init /\ [][TttNext]_vars

\* ------------------------------- the simultaneous-choice game, two peers
\* peer p has sent the payloads: they are appended to its messages prop,
\* over which the effect then runs
RpsAfterSending(p, st, datas) ==
  /\ Len(glog) + Len(datas) <= MaxRpsLog
  /\ LET log1 == SendAll(glog, p, datas)
         upTo == Advance(log1, seen[p], p)
         settled == RpsSettle(st, log1, upTo, p)
     IN /\ Len(settled.log) <= MaxRpsLog
        /\ glog' = settled.log
        /\ seen' = [seen EXCEPT ![p] = Advance(glog', upTo, p)]
        /\ rps' = [rps EXCEPT ![p] = settled.st]
  /\ UNCHANGED <<ttt, chatVars, fnVars, sideVars>>

\* a peer types a text into the chat that is no payload of a game
RpsTyped(p, content) ==
  /\ ~rps[p].crashed
  /\ TypedCount(glog) < MaxTyped
  /\ RpsAfterSending(p, rps[p], <<content>>)

\* startNewGame at peer p
RpsStart(p) ==
  /\ ~rps[p].crashed
  /\ StartCount(glog) < MaxStarts
  /\ LET newGameId == Len(glog) + 1 IN
     RpsAfterSending(p,
       [rps[p] EXCEPT !.myScore = 0, !.friendScore = 0, !.myChoice = Null,
                      !.friendChoice = Null, !.roundResult = "",
                      !.gameId = newGameId, !.waitingForFriend = FALSE],
       <<RpsData(newGameId, "start", Absent, NoScores, Absent)>>)

\* makeChoice(choice) at peer p: the buttons are rendered while the peer has
\* no choice and no round result, and are disabled while it waits
MakeChoice(p, choice) ==
  /\ ~rps[p].crashed
  /\ rps[p].myChoice = Null /\ rps[p].roundResult = ""
  /\ ~rps[p].waitingForFriend
  /\ LET id == IF rps[p].gameId # NoGameId THEN rps[p].gameId ELSE Len(glog) + 1
         sent == <<RpsData(id, "choice", choice, NoScores, Absent)>>
                   \o IF rps[p].friendChoice # Null
                      THEN <<RoundResultData(rps[p], p, choice, rps[p].friendChoice)>>
                      ELSE <<>>
     IN RpsAfterSending(p,
          [rps[p] EXCEPT !.myChoice = choice, !.waitingForFriend = TRUE], sent)

\* the next row of the conversation reaches the messages prop of peer p
RpsDeliver(p) ==
  /\ ~rps[p].crashed
  /\ seen[p] < Len(glog)
  /\ LET upTo == Advance(glog, seen[p] + 1, p)
         settled == RpsSettle(rps[p], glog, upTo, p)
     IN /\ Len(settled.log) <= MaxRpsLog
        /\ glog' = settled.log
        /\ seen' = [seen EXCEPT ![p] = Advance(glog', upTo, p)]
        /\ rps' = [rps EXCEPT ![p] = settled.st]
  /\ UNCHANGED <<ttt, chatVars, fnVars, sideVars>>

\* the setTimeout of the effect fires at peer p; myChoice is a dependency
\* of the effect, which runs again when the reset changes it
RpsRoundReset(p) ==
  /\ ~rps[p].crashed
  /\ rps[p].timer
  /\ LET st == [rps[p] EXCEPT !.myChoice = Null, !.friendChoice = Null,
                              !.waitingForFriend = FALSE, !.timer = FALSE]
         settled == IF rps[p].myChoice # Null
                    THEN RpsSettle(st, glog, seen[p], p)
                    ELSE [st |-> st, log |-> glog]
     IN /\ Len(settled.log) <= MaxRpsLog
        /\ glog' = settled.log
        /\ seen' = [seen EXCEPT ![p] = Advance(glog', @, p)]
        /\ rps' = [rps EXCEPT ![p] = settled.st]
  /\ UNCHANGED <<ttt, chatVars, fnVars, sideVars>>

RpsNext ==
  \/ \E p \in Peers : \E content \in TypedContents : RpsTyped(p, content)
  \/ \E p \in Peers : RpsStart(p)
  \/ \E p \in Peers : \E choice \in Choices : MakeChoice(p, choice)
  \/ \E p \in Peers : RpsDeliver(p)
  \/ \E p \in Peers : RpsRoundReset(p)

RpsSpec == Init /\ [][RpsNext]_vars

\* ------------------------------------------------------------ properties
\* the log without the entries that carry an id
RECURSIVE Without(_, _)
Without(log, id) ==
  IF log = <<>> THEN <<>>
  ELSE IF Head(log).id = id THEN Without(Tail(log), id)
  ELSE <<Head(log)>> \o Without(Tail(log), id)

HasId(log, id) == \E i \in 1..Len(log) : log[i].id = id

IsPermanent(id) == id[1] = "db"

SortedByCreatedAt(log) ==
  \A i, j \in 1..Len(log) : i < j => log[i].created_at <= log[j].created_at

Blank(text) == \A i \in 1..Len(text) : text[i] = " "

OpenChannels == channels["f1"] + channels["f2"]

\* C1: when the insert of a send fails, the log afterwards is the log before
\* without the entries carrying that send's temporary id: the other entries
\* are unchanged and in the same order, and no entry with that id remains.
C1_OptimisticRollback ==
  [][\A s \in sends : SendFail(s) =>
       /\ messages' = Without(messages, s.temp)
       /\ ~HasId(messages', s.temp)]_vars

C1_Witness ==
  /\ toasts # <<>> /\ toasts[1] = "Error Sending Message"
  /\ messages # <<>>

\* C2: when the insert of a send succeeds, the confirmation keeps the length
\* of the log, puts the stored row at every position that carried the send's
\* temporary id and leaves every other position as it was.
C2_ConfirmReplacesInPlace ==
  [][\A s \in sends : SendConfirm(s) =>
       /\ Len(messages') = Len(messages)
       /\ \A i \in 1..Len(messages) :
            messages'[i] = IF messages[i].id = s.temp
                           THEN Entry(store[s.row]) ELSE messages[i]]_vars

C2_Witness ==
  /\ last = "confirm"
  /\ Len(messages) >= 2
  /\ IsPermanent(messages[1].id) /\ messages[1].sender_id = User
  /\ messages[2].sender_id # User

\* C3: the log never holds two entries with the same permanent id.
C3_NoDuplicatePermanentId ==
  \A i, j \in 1..Len(messages) :
    (i # j /\ messages[i].id = messages[j].id) => ~IsPermanent(messages[i].id)

\* C4: a push callback for a message whose id is already in the log leaves
\* the log as it was.
C4_PushOfKnownIdIsIgnored ==
  [][\A n \in callbacks :
       (PushCallbackDone(n) /\ HasId(messages, DbId(n))) => messages' = messages]_vars

C4_Witness == last = "pushDup" /\ Len(messages) >= 2

\* C5: a pushed message is inserted at the position its createdAt implies:
\* a log of stored messages that is ordered by createdAt is still ordered
\* after a push callback has added its message.
C5_PushKeepsCreatedAtOrder ==
  [][\A n \in callbacks :
       (/\ PushCallbackDone(n)
        /\ \A i \in 1..Len(messages) : IsPermanent(messages[i].id)
        /\ SortedByCreatedAt(messages))
         => SortedByCreatedAt(messages')]_vars

\* C6: once no fetchMessages and no push callback is in flight, every entry
\* of the log belongs to the conversation with the selected friend.
C6_LogBelongsToSelectedFriend ==
  (mounted /\ selectedFriend # Null /\ fetches = {} /\ callbacks = {})
    => \A i \in 1..Len(messages) : InConversation(messages[i], selectedFriend)

\* C7: at most one channel is open; it is the channel of the selected
\* friend; with no friend selected or the view unmounted none is open.
C7_AtMostOneSubscription ==
  /\ OpenChannels <= 1
  /\ (mounted /\ selectedFriend # Null) => channels[selectedFriend] = 1
  /\ (~mounted \/ selectedFriend = Null) => OpenChannels = 0

C7_Witness ==
  /\ selectedFriend = "f2" /\ channels["f2"] = 1 /\ channels["f1"] = 0
  /\ \E i \in 1..Len(messages) : InConversation(messages[i], "f1")

\* C8: sendMessage with blank text and no image changes neither the log, the
\* compose input, the image, the loading flag nor the store, and issues no
\* insert.
C8_EmptySendHasNoEffect ==
  [][\A message \in GameMessages :
       (SendGameResult(message) /\ Blank(newMessage) /\ imageUrl = NoImage)
         => UNCHANGED <<messages, newMessage, imageUrl, loading, sends, store>>]_vars

C8_Witness ==
  /\ toasts # <<>> /\ toasts[1] = "Cannot send empty message."
  /\ newMessage = <<" ">>
  /\ messages # <<>>

\* C9: a failed fetchMessages leaves the log as it was and shows an error
\* toast.
C9_FetchFailureKeepsLog ==
  [][\A r \in fetches : FetchFail(r) =>
       /\ messages' = messages
       /\ toasts' = <<"Error">>]_vars

C9_Witness == toasts = <<"Error">> /\ messages # <<>>

\* C10: a read_at that is set is never written again, and a read-marking
\* that follows an applied read-marking of the same messages, with no insert
\* in between, changes no row.
C10_MarkReadIdempotent ==
  [][/\ \A i \in 1..Len(store) :
          store[i].read_at # Unread => store'[i].read_at = store[i].read_at
     /\ \A p \in marks :
          (MarkApply(p) /\ (p \in marked \/ All \in marked)) => store' = store]_vars

C10_Witness ==
  /\ last = "markAgain"
  /\ \E i \in 1..Len(store) :
       store[i].read_at # Unread /\ store[i].read_at < now

\* C11: the read-marking of the conversation view with friend p changes
\* read_at only on rows sent by p to the user whose read_at is null; every
\* other row, and every other field of every row, is left as it was.
C11_MarkReadFrame ==
  [][\A p \in Friends :
       MarkApply(p) =>
         /\ Len(store') = Len(store)
         /\ \A i \in 1..Len(store) :
              /\ store'[i] = [store[i] EXCEPT !.read_at = store'[i].read_at]
              /\ ~(/\ store[i].sender_id = p
                   /\ store[i].receiver_id = User
                   /\ store[i].read_at = Unread)
                   => store'[i] = store[i]]_vars

C11_Witness ==
  /\ marked \cap Friends # {} /\ All \notin marked
  /\ \E p \in marked, i, j \in 1..Len(store) :
       /\ store[i].sender_id = p /\ store[i].read_at = now
       /\ store[j].sender_id = User /\ store[j].read_at = Unread

\* C12: read_at of a row goes from null to a time only by the read-marking
\* that the user's opening of the conversation with the row's sender issued.
C12_ReadOnlyByOpeningConversation ==
  [][\A i \in 1..Len(store) :
       (store[i].read_at = Unread /\ store'[i].read_at # Unread)
         => MarkApply(store[i].sender_id)]_vars

\* what a peer's marking game shows of the session
TttView(p) ==
  [gameId |-> ttt[p].gameId, board |-> ttt[p].board,
   currentPlayer |-> ttt[p].currentPlayer, gameResult |-> ttt[p].gameResult]

\* the same four fields of a payload
PayloadView(data) ==
  [gameId |-> data.gameId, board |-> data.board,
   currentPlayer |-> data.currentPlayer, gameResult |-> data.gameResult]

AllSeen == \A p \in Peers : seen[p] = Len(glog)

\* some message of the log reports a result for game g
Terminal(log, g) ==
  \E k \in 1..Len(log) :
    /\ log[k].data.gameType = "tictactoe" /\ log[k].data.gameId = g
    /\ log[k].data.gameResult \in {"X", "O", "tie"}

C14_OneMoverCreatorIsX ==
  (AllSeen /\ glog # <<>> /\ ttt[User].gameResult = Null)
    => LET creator == glog[ttt[User].gameId].sender IN
       /\ Cardinality({p \in Peers : ttt[p].playerSymbol = ttt[p].currentPlayer}) = 1
       /\ ttt[creator].playerSymbol = "X"
       /\ ttt[OtherPeer(creator)].playerSymbol = "O"

\* C15: once a message of the session reports a result, no peer sends a
\* further move payload with the session's gameId.
C15_NoMoveAfterResult ==
  [][\A p \in Peers : \A index \in Squares :
       TttClick(p, index) => ~Terminal(glog, glog'[Len(glog')].data.gameId)]_vars

\* what a peer's simultaneous-choice game holds, the pending timer aside
RpsShown(p) == [rps[p] EXCEPT !.timer = FALSE]

\* C16: a content that does not parse, or that parses and lacks a required
\* field, raises no error at the peer that receives it and leaves the state
\* of its game as it was.
C16_MalformedIsDropped ==
  [][\A p \in Peers :
       (RpsDeliver(p) /\ glog[seen[p] + 1].data \in TypedContents)
         => /\ ~rps'[p].crashed
            /\ [rps'[p] EXCEPT !.timer = FALSE] = RpsShown(p)]_vars

\* C17: after a round, both peers name the same participant as its winner,
\* and the score a peer shows for itself is the score the other shows for
\* its friend.
C17_SameRoundResult ==
  LET k == LatestOf(GameMessagesOf(glog, 1..Len(glog), "rps")) IN
  (/\ AllSeen /\ k # 0
   /\ \A p \in Peers : ~rps[p].crashed
   /\ glog[k].data.action = "result" /\ glog[k].data.scores # NoScores)
    => /\ rps[User].roundResult = "You won this round!"
            <=> rps[Opponent].roundResult = "Your friend won this round!"
       /\ rps[User].roundResult = "Your friend won this round!"
            <=> rps[Opponent].roundResult = "You won this round!"
       /\ rps[User].myScore = rps[Opponent].friendScore
       /\ rps[User].friendScore = rps[Opponent].myScore

\* the eight lines of the board, by rows, columns and diagonals
BoardLines ==
  {{3 * r + 1, 3 * r + 2, 3 * r + 3} : r \in 0..2}
    \cup {{c, c + 3, c + 6} : c \in 1..3}
    \cup {{1, 5, 9}, {3, 5, 7}}

HasLine(b, m) == \E l \in BoardLines : \A i \in l : b[i] = m

\* rock beats scissors, scissors beats paper, paper beats rock
Dominates(a, b) ==
  <<a, b>> \in {<<"rock", "scissors">>, <<"scissors", "paper">>, <<"paper", "rock">>}

\* C18: for all 9 pairs of choices the round outcome follows the cyclic
\* dominance relation, the first player wins (a, b) exactly when the first
\* player loses (b, a), a win adds one to the winner's score alone and a tie
\* changes no score.
C18_RoundOutcome ==
  done =>
    LET a == arg.player  b == arg.opponent IN
    /\ a = b => out.winner = "none" /\ out.my = arg.my /\ out.friend = arg.friend
    /\ Dominates(a, b) =>
         out.winner = "player" /\ out.my = arg.my + 1 /\ out.friend = arg.friend
    /\ Dominates(b, a) =>
         out.winner = "opponent" /\ out.my = arg.my /\ out.friend = arg.friend + 1
    /\ out.winner = "player" <=>
         /\ determineWinner(b, a) = "lose"
         /\ determineRoundWinner(b, a, arg.friend, arg.my).result
              = "Your friend won this round!"

C18_Witness ==
  /\ done /\ out.by = "multiplayer" /\ out.winner = "opponent"
  /\ arg.player = "scissors" /\ arg.opponent = "rock" /\ out.friend = MaxScore + 1

\* C19: win detection returns a mark that fills one of the 8 lines when
\* some line holds three equal marks, tie when no line does and the board is
\* full, and null when no line does and a cell is empty.
C19_WinDetection ==
  done =>
    LET won == \E m \in Marks : HasLine(arg, m)
        full == \A i \in Cells : arg[i] # Null
    IN /\ won => out.result \in Marks /\ HasLine(arg, out.result)
       /\ (~won /\ full) => out.result = "tie"
       /\ (~won /\ ~full) => out.result = Null

C19_Witness ==
  /\ done /\ out.by = "multiplayer" /\ out.result = "X"
  /\ arg[3] = "X" /\ arg[5] = "X" /\ arg[7] = "X" /\ ~HasLine(arg, "O")

\* the place of a profile in a friends list
PlaceOf(l, f) == CHOOSE i \in 1..Len(l) : l[i] = f

\* C20: the conversation index has exactly one entry per friend of the
\* list, is ordered by the last message's created_at descending with the
\* conversations without a message behind all others, and keeps the
\* conversations without a message in their order of the list.
C20_ConversationOrder ==
  done =>
    /\ Len(out) = Len(arg.friendsList)
    /\ \A k \in 1..Len(arg.friendsList) :
         Cardinality({i \in 1..Len(out) : out[i].friend = arg.friendsList[k]}) = 1
    /\ \A i, j \in 1..Len(out) :
         i < j =>
           /\ out[i].lastMessage = NoMessage => out[j].lastMessage = NoMessage
           /\ out[j].lastMessage # NoMessage
                => out[i].lastMessage >= out[j].lastMessage
           /\ (out[i].lastMessage = NoMessage /\ out[j].lastMessage = NoMessage)
                => PlaceOf(arg.friendsList, out[i].friend)
                     < PlaceOf(arg.friendsList, out[j].friend)

\* the friends list with last messages [none, 1, 2] comes out as [2, 1, none]
C20_Witness ==
  /\ done /\ Len(out) = 3 /\ arg.failed = {}
  /\ LastMessage(arg.rows, arg.failed, arg.friendsList[1]) = NoMessage
  /\ LastMessage(arg.rows, arg.failed, arg.friendsList[2]) = 1
  /\ LastMessage(arg.rows, arg.failed, arg.friendsList[3]) = 2
  /\ out[1].friend = arg.friendsList[3]
  /\ out[2].friend = arg.friendsList[2]
  /\ out[3].friend = arg.friendsList[1]

\* ------------------------------------------- notification counters: steps
\* the update of the hook's markMessagesAsRead, on the rows of direct_messages
MarkRecordsRead(rows, t) ==
  [i \in 1..Len(rows) |->
     IF rows[i].table = "direct_messages"
     THEN MarkReadUpdate(<<rows[i]>>, All, User, t)[1]
     ELSE rows[i]]

\* some client inserts a row; the table's channel queues the INSERT event
NoteInsert(row) ==
  /\ Len(records) < Len(RecordsAtMount) + MaxRecords
  /\ records' = Append(records, row)
  /\ notices' = notices \cup {Len(records')}
  /\ UNCHANGED <<counts, counting, clearing, view>>
  /\ UNCHANGED <<chatVars, gameVars, fnVars, pushed, friendVars, roomVars>>

\* a channel delivers an INSERT event to its callback
NoteDeliver(n) ==
  /\ n \in notices
  /\ notices' = notices \ {n}
  /\ counts' = OnInsert(counts, records[n])
  /\ UNCHANGED <<records, counting, clearing, view>>
  /\ UNCHANGED <<chatVars, gameVars, fnVars, pushed, friendVars, roomVars>>

\* the store answers the count query fetchCounts awaits
CountQueryStep ==
  /\ counting.stage \in 1..4
  /\ counting' = [stage |-> counting.stage + 1,
                  result |-> Append(counting.result,
                                    CountQuery(counting.stage, records, now))]
  /\ UNCHANGED <<counts, records, notices, clearing, view>>
  /\ UNCHANGED <<chatVars, gameVars, fnVars, pushed, friendVars, roomVars>>

\* the last answer has arrived: setCounts({...}) of fetchCounts
CountingDone ==
  /\ counting.stage = 5
  /\ counts' = FetchedCounts(counting.result)
  /\ counting' = NotCounting
  /\ UNCHANGED <<records, notices, clearing, view>>
  /\ UNCHANGED <<chatVars, gameVars, fnVars, pushed, friendVars, roomVars>>

\* handleViewChange(v) of the header
HandleViewChange(v) ==
  /\ v = "messages" => Len(clearing) < MaxClears
  /\ view' = v
  /\ counts' = IF v \in {"feed", "chat", "friends"}
               THEN clearNotifications(counts, Consumes(v))
               ELSE counts
  /\ clearing' = IF v = "messages" THEN Append(clearing, "sent") ELSE clearing
  /\ UNCHANGED <<records, notices, counting>>
  /\ UNCHANGED <<chatVars, gameVars, fnVars, pushed, friendVars, roomVars>>

\* the store applies the update of a markMessagesAsRead
ClearWrite(i) ==
  /\ i \in 1..Len(clearing) /\ clearing[i] = "sent"
  /\ records' = MarkRecordsRead(records, now)
  /\ clearing' = [clearing EXCEPT ![i] = "written"]
  /\ UNCHANGED <<counts, notices, counting, view>>
  /\ UNCHANGED <<chatVars, gameVars, fnVars, pushed, friendVars, roomVars>>

\* the update fails; the response carries an error nobody reads
ClearWriteFail(i) ==
  /\ i \in 1..Len(clearing) /\ clearing[i] = "sent"
  /\ clearing' = [clearing EXCEPT ![i] = "failed"]
  /\ UNCHANGED <<counts, records, notices, counting, view>>
  /\ UNCHANGED <<chatVars, gameVars, fnVars, pushed, friendVars, roomVars>>

\* the response of the update arrives: clearNotifications('messages')
ClearDone(i) ==
  /\ i \in 1..Len(clearing) /\ clearing[i] # "sent"
  /\ counts' = CountsAfterMark(counts, clearing[i] = "written")
  /\ clearing' = SubSeq(clearing, 1, i - 1) \o SubSeq(clearing, i + 1, Len(clearing))
  /\ UNCHANGED <<records, notices, counting, view>>
  /\ UNCHANGED <<chatVars, gameVars, fnVars, pushed, friendVars, roomVars>>

\* rows arriving and the initial count
Counting ==
  \/ \E row \in NewRecords(now) : NoteInsert(row)
  \/ \E n \in notices : NoteDeliver(n)
  \/ CountQueryStep
  \/ CountingDone

\* the user moves between the views
Navigating ==
  \/ \E v \in Views : HandleViewChange(v)
  \/ \E i \in 1..Len(clearing) : ClearWrite(i)
  \/ \E i \in 1..Len(clearing) : ClearWriteFail(i)
  \/ \E i \in 1..Len(clearing) : ClearDone(i)

\* the hook while the user stays on one view
CountNext == Tick \/ Counting

CountSpec == Init /\ [][CountNext]_vars

\* the hook under the header
NotifNext == Tick \/ Counting \/ Navigating

NotifSpec == Init /\ [][NotifNext]_vars

\* C21: an INSERT event delivered on a notification channel adds one to the
\* counter of its table when the row qualifies (direct messages and friend
\* requests: the receiver is the user; posts and chat messages: the author
\* is not the user) and changes no counter otherwise; no other counter
\* changes.
C21_InsertCountsOnce ==
  [][\A n \in notices :
       NoteDeliver(n) =>
         LET row == records[n]
             qualifies ==
               \/ row.table = "direct_messages" /\ row.receiver_id = User
               \/ row.table = "friend_requests" /\ row.receiver_id = User
               \/ row.table = "posts" /\ row.author_id # User
               \/ row.table = "messages" /\ row.author_id # User
         IN \A c \in Categories :
              counts'[c] = IF qualifies /\ c = CategoryOf(row.table)
                           THEN counts[c] + 1
                           ELSE counts[c]]_vars

C21_Witness ==
  /\ counting = NotCounting
  /\ counts = [NoCounts EXCEPT !["messages"] = 2]
  /\ notices = {}
  /\ \E i, j \in 1..Len(records) :
       /\ i > Len(RecordsAtMount) /\ j > Len(RecordsAtMount)
       /\ records[i] = DirectMessageTo(User, records[i].created_at)
       /\ records[j] = DirectMessageTo(Stranger, records[j].created_at)

\* C22: clearNotifications(type) sets that counter to zero and leaves the
\* other three alone; navigating to feed, chat or friends clears posts, chat
\* or friendRequests and nothing else, navigating to messages clears
\* messages and nothing else once its write has been answered, and
\* navigating to profile clears nothing.
C22_ClearsOneCounter ==
  [][/\ \A v \in Views :
          HandleViewChange(v) =>
            \A c \in Categories :
              counts'[c] = IF \/ v = "feed" /\ c = "posts"
                              \/ v = "chat" /\ c = "chat"
                              \/ v = "friends" /\ c = "friendRequests"
                           THEN 0 ELSE counts[c]
     /\ \A i \in 1..Len(clearing) :
          ClearDone(i) =>
            \A c \in Categories :
              counts'[c] = IF c = "messages" THEN 0 ELSE counts[c]]_vars

C22_Witness ==
  /\ view = "friends"
  /\ counting = NotCounting /\ notices = {}
  /\ counts = [NoCounts EXCEPT !["messages"] = 1, !["posts"] = 1]
  /\ \E i \in 1..Len(records) : records[i].table = "friend_requests"
                                 /\ records[i].receiver_id = User

\* C23: when the write of the hook's markMessagesAsRead has been answered,
\* the messages counter is zero, whether the write was applied or failed.
C23_ClearedEitherWay ==
  [][\A i \in 1..Len(clearing) : ClearDone(i) => counts'["messages"] = 0]_vars

\* the write failed, the unread rows are still unread, the counter is zero
C23_Witness ==
  /\ view = "messages" /\ clearing = <<>>
  /\ counting = NotCounting /\ notices = {}
  /\ UnreadMessageCount(records) = 2
  /\ counts["messages"] = 0

\* C30: when fetchCounts and every push callback have completed and the user
\* has not navigated, the messages counter is the number of stored direct
\* messages for the user whose read_at is null.
C30_CounterIsUnreadCount ==
  (counting = NotCounting /\ notices = {})
    => counts["messages"] = UnreadMessageCount(records)

\* ------------------------------------------------- friend requests: steps
\* sendFriendRequest of user u with `name` in the search input
SendFriendRequest(u, name) ==
  /\ Trim(name) # <<>>
  /\ LET targetProfile == ProfileByUsername(Trim(name)) IN
     IF targetProfile = Null
     THEN /\ ftoast' = [ftoast EXCEPT ![u] = "User not found"]
          /\ UNCHANGED friend_requests
     ELSE IF targetProfile = u
     THEN /\ ftoast' = [ftoast EXCEPT ![u] = "You cannot send a friend request to yourself"]
          /\ UNCHANGED friend_requests
     ELSE LET ins == InsertFriendRequest(friend_requests, u, targetProfile) IN
          /\ Len(ins.rows) <= MaxRequests
          /\ friend_requests' = ins.rows
          /\ ftoast' = [ftoast EXCEPT ![u] =
                          IF ins.error = "23505" THEN "Friend request already sent"
                          ELSE "Friend request sent!"]
  /\ UNCHANGED <<friendships, pendingRequests>>
  /\ UNCHANGED <<chatVars, gameVars, fnVars, pushed, notifVars, roomVars>>

\* fetchFriendRequests of user u: setPendingRequests(received)
FetchFriendRequests(u) ==
  /\ pendingRequests' = [pendingRequests EXCEPT ![u] = ReceivedPending(friend_requests, u)]
  /\ pendingRequests' # pendingRequests
  /\ UNCHANGED <<friend_requests, friendships, ftoast>>
  /\ UNCHANGED <<chatVars, gameVars, fnVars, pushed, notifVars, roomVars>>

\* respondToFriendRequest(requestId, status) of user u, on a request its
\* view lists: the update, the trigger it fires and the toast
RespondToFriendRequest(u, requestId, status) ==
  /\ requestId \in pendingRequests[u]
  /\ LET old == friend_requests[requestId]
         new == [old EXCEPT !.status = status]
     IN /\ friend_requests' = [friend_requests EXCEPT ![requestId] = new]
        /\ friendships' = handle_friend_request_accepted(friendships, old, new)
  /\ ftoast' = [ftoast EXCEPT ![u] = IF status = Accepted THEN "Friend request accepted!"
                                     ELSE "Friend request rejected!"]
  /\ UNCHANGED pendingRequests
  /\ UNCHANGED <<chatVars, gameVars, fnVars, pushed, notifVars, roomVars>>

FriendNext ==
  \/ \E u \in Members : \E name \in SearchInputs : SendFriendRequest(u, name)
  \/ \E u \in Members : FetchFriendRequests(u)
  \/ \E u \in Members : \E requestId \in 1..MaxRequests :
       \E status \in {Accepted, Rejected} : RespondToFriendRequest(u, requestId, status)

FriendSpec == Init /\ [][FriendNext]_vars

\* the two of a request, as a set
PairOf(r) == {r.sender_id, r.receiver_id}

\* C24: the table friendships holds at most one row for a pair of users,
\* and each row has user1_id < user2_id, whatever requests were accepted,
\* the same one twice or the two of a pair in both directions.
C24_OneEdgePerPair ==
  /\ \A i, j \in 1..Len(friendships) :
       {friendships[i].user1_id, friendships[i].user2_id}
         = {friendships[j].user1_id, friendships[j].user2_id} => i = j
  /\ \A i \in 1..Len(friendships) :
       Before(friendships[i].user1_id, friendships[i].user2_id)

\* both requests of a pair are accepted
C24_Witness ==
  /\ \E i, j \in 1..Len(friend_requests) :
       /\ i # j /\ PairOf(friend_requests[i]) = PairOf(friend_requests[j])
       /\ friend_requests[i].status = Accepted
       /\ friend_requests[j].status = Accepted
  /\ Len(friendships) = 1

\* C25: friend_requests holds at most one row for a sender and a receiver;
\* a sendFriendRequest for a pair that has a row inserts none and shows
\* "Friend request already sent", and one whose target is the sender
\* inserts none.
C25_OneRequestPerPair ==
  [][/\ \A i, j \in 1..Len(friend_requests') :
          (/\ friend_requests'[i].sender_id = friend_requests'[j].sender_id
           /\ friend_requests'[i].receiver_id = friend_requests'[j].receiver_id)
            => i = j
     /\ \A u \in Members : \A name \in SearchInputs :
          SendFriendRequest(u, name) =>
            /\ (\E i \in 1..Len(friend_requests) :
                   /\ friend_requests[i].sender_id = u
                   /\ <<friend_requests[i].receiver_id>> = Trim(name))
                 => /\ friend_requests' = friend_requests
                    /\ ftoast'[u] = "Friend request already sent"
            /\ Trim(name) = <<u>>
                 => /\ friend_requests' = friend_requests
                    /\ ftoast'[u] # "Friend request sent!"]_vars

\* a second request for the pair was refused
C25_Witness ==
  /\ \E u \in Members :
       /\ ftoast[u] = "Friend request already sent"
       /\ \E i \in 1..Len(friend_requests) : friend_requests[i].sender_id = u
  /\ \E u \in Members : ftoast[u] = "You cannot send a friend request to yourself"

\* C27: a request whose status is accepted has a row in friendships for its
\* sender and receiver.
C27_AcceptedHasEdge ==
  \A i \in 1..Len(friend_requests) :
    friend_requests[i].status = Accepted
      => \E k \in 1..Len(friendships) :
           {friendships[k].user1_id, friendships[k].user2_id} = PairOf(friend_requests[i])

\* C26: sendGameResult(message) submits one direct message for the selected
\* friend whose content is `message`, whatever the compose input holds, and
\* the step that shows "Game Result Sent" has submitted it.
C26_GameResultIsSent ==
  [][\A message \in GameMessages :
       SendGameResult(message) =>
         /\ \E s \in sends' \ sends :
              s.content = message /\ s.friend = selectedFriend
         /\ (\E i \in 1..Len(toasts') : toasts'[i] = "Game Result Sent")
              => sends' # sends]_vars

\* C28: when no fetch, push callback, event or send is in flight, every row
\* the push callback appended to the open conversation's log is in the log.
C28_PushedStaysInLog ==
  (/\ mounted /\ selectedFriend # Null
   /\ fetches = {} /\ callbacks = {} /\ events = {} /\ sends = {})
    => \A n \in pushed : MessageExists(messages, Entry(store[n]))

\* ------------------------------------------------------ the chat room: steps
\* handleSendMessage of some client: the insert; the channel queues the
\* INSERT event, which is delivered once
RoomInsert(author) ==
  /\ Len(roomStore) < MaxRoomStore
  /\ roomStore' = Append(roomStore, RoomRow(Len(roomStore) + 1, author))
  /\ roomEvents' = roomEvents \cup {Len(roomStore')}
  /\ UNCHANGED <<roomMessages, roomFetch>>
  /\ UNCHANGED <<chatVars, gameVars, fnVars, pushed, notifVars, friendVars>>

\* the store evaluates the select of fetchMessages
RoomFetchRead ==
  /\ roomFetch.stage = "sent"
  /\ roomFetch' = [stage |-> "read", data |-> SelectRoom(roomStore)]
  /\ UNCHANGED <<roomStore, roomMessages, roomEvents>>
  /\ UNCHANGED <<chatVars, gameVars, fnVars, pushed, notifVars, friendVars>>

\* the select response arrives: setMessages(data || [])
RoomFetchDone ==
  /\ roomFetch.stage = "read"
  /\ roomMessages' = roomFetch.data
  /\ roomFetch' = [stage |-> "none", data |-> <<>>]
  /\ UNCHANGED <<roomStore, roomEvents>>
  /\ UNCHANGED <<chatVars, gameVars, fnVars, pushed, notifVars, friendVars>>

\* the select fails: the catch block logs the error
RoomFetchFail ==
  /\ roomFetch.stage = "sent"
  /\ roomFetch' = [stage |-> "none", data |-> <<>>]
  /\ UNCHANGED <<roomStore, roomMessages, roomEvents>>
  /\ UNCHANGED <<chatVars, gameVars, fnVars, pushed, notifVars, friendVars>>

\* the channel delivers an INSERT event to the callback
RoomDeliver(n) ==
  /\ n \in roomEvents
  /\ roomEvents' = roomEvents \ {n}
  /\ roomMessages' = AppendPayload(roomMessages, roomStore[n])
  /\ UNCHANGED <<roomStore, roomFetch>>
  /\ UNCHANGED <<chatVars, gameVars, fnVars, pushed, notifVars, friendVars>>

RoomNext ==
  \/ \E author \in {User, Stranger} : RoomInsert(author)
  \/ RoomFetchRead
  \/ RoomFetchDone
  \/ RoomFetchFail
  \/ \E n \in 1..MaxRoomStore : RoomDeliver(n)

RoomSpec == Init /\ [][RoomNext]_vars

\* C29: the room's log holds a stored message at most once.
C29_RoomLogHasNoDuplicate ==
  \A i, j \in 1..Len(roomMessages) :
    roomMessages[i].id = roomMessages[j].id => i = j

====
